---- MODULE Spec2Model ----
(***************************************************************************)
(* A model of pypager's Pager (src/pypager/pager.py): the registry of      *)
(* open sources, and the render-triggered loader that reads more content   *)
(* from the focused source, either from a readiness callback on the        *)
(* reactor thread or from a worker thread.                                 *)
(*                                                                         *)
(* The Source classes (pypager/source.py), the key bindings and the layout *)
(* are not part of the sources at hand: they are modelled from the         *)
(* specification's description of their contract.                          *)
(***************************************************************************)
EXTENDS Integers, Sequences, FiniteSets, TLC

(* ------------------------------ bounds --------------------------------- *)

\* Number of Source objects ever constructed in one run of the registry
\* (SpecRegistry) and of the loader (Spec).
MaxSources == 4
MaxLoading == 2
\* The longest chunk handle_content is tried on by itself.
MaxTokens == 3

(* ----------------------------- constants ------------------------------- *)

NL == "\n"

NoMessage == "None"
CantRemove == "Can't remove the last buffer."
OpenError == "IOError"

\* The dummy source of Pager.__init__: not a member of the registry and not
\* a key of source_info.
_dummy_source == 0

SourceIds == 1..(IF MaxSources > MaxLoading THEN MaxSources ELSE MaxLoading)

\* One (token, char) pair of a chunk.
Tok(c) == <<"Token", c>>

\* The content a source of each kind delivers, chunk by chunk.
Content(k) ==
    CASE k = "pipe"   -> << <<Tok(NL)>>, <<Tok("b")>> >>
      [] k = "file"   -> << <<Tok("a")>>, <<Tok(NL)>> >>
      [] k = "string" -> << <<Tok("h"), Tok(NL)>> >>
      [] OTHER        -> << >>

\* Source.get_fd(): a pipe has a descriptor, the other sources are pull-only.
get_fd(k) == IF k = "pipe" THEN "fd" ELSE "None"

\* The render info the layout hands to _on_render: None before the body was
\* drawn, else the viewport geometry.
RenderInfos ==
    {[window_height |-> 1, line_count |-> 1, last_visible_line |-> 0],
     [window_height |-> 10, line_count |-> 5, last_visible_line |-> 0],
     [window_height |-> 10, line_count |-> 25, last_visible_line |-> 0]}

(* ------------------------------- state --------------------------------- *)

VARIABLES
    sources,               \* Pager.sources: list of source ids
    current_source_index,  \* Pager.current_source_index
    in_colon_mode,         \* Pager.in_colon_mode
    message,               \* Pager.message
    displaying_help,       \* Pager.displaying_help
    forward_forever,       \* Pager.forward_forever
    kind,                  \* the Source objects constructed so far
    src_pos,               \* per source: chunks delivered by read_chunk
    src_eof,               \* per source: eof()
    text,                  \* per source: source_info.buffer.text
    cursor_position,       \* per source: source_info.buffer.cursor_position
    line_tokens,           \* per source: source_info.line_tokens
    waiting_for_input_stream, \* per source: the flag of _SourceInfo
    readers,               \* loop.add_reader: per descriptor, <<closure>> or << >>
    threads,               \* live worker threads: per source, seq of closures
    error                  \* the exception that ended the application

vars == <<sources, current_source_index, in_colon_mode, message,
          displaying_help, forward_forever, kind, src_pos, src_eof, text,
          cursor_position, line_tokens, waiting_for_input_stream, readers,
          threads, error>>

registry == <<sources, current_source_index, in_colon_mode, message,
              displaying_help>>
sourceObjs == <<kind, src_pos, src_eof>>
documents == <<text, cursor_position, line_tokens>>
episodes == <<waiting_for_input_stream, readers, threads>>

(* ------------------------------ helpers -------------------------------- *)

\* Number of Source objects constructed so far.
NumCreated == Cardinality({s \in SourceIds : kind[s] # "none"})

\* The sequence without its element at position i.
RemoveAt(seq, i) == SubSeq(seq, 1, i - 1) \o SubSeq(seq, i + 1, Len(seq))

\* Position (1-based) of the first occurrence of x in seq; 0 when absent.
IndexOf(seq, x) ==
    IF \E i \in 1..Len(seq) : seq[i] = x
    THEN CHOOSE i \in 1..Len(seq) :
            seq[i] = x /\ \A j \in 1..(i - 1) : seq[j] # x
    ELSE 0

\* list.remove(x): drops the first occurrence of x.
ListRemove(seq, x) == RemoveAt(seq, IndexOf(seq, x))

\* The elements of a sequence.
Range(seq) == {seq[i] : i \in 1..Len(seq)}

\* Pager.current_source at registry (srcs, idx): IndexError gives the dummy.
CurrentSourceOf(srcs, idx) ==
    IF idx >= 0 /\ idx < Len(srcs) THEN srcs[idx + 1] ELSE _dummy_source

current_source == CurrentSourceOf(sources, current_source_index)

(* ------------------------------- Init ---------------------------------- *)

\* Pager.__init__ : no source is open, and no Source object exists yet. The
\* per-source fields hold what _SourceInfo.__init__ gives a new source.
Init ==
    /\ sources = << >>
    /\ current_source_index = 0
    /\ in_colon_mode = FALSE
    /\ message = NoMessage
    /\ displaying_help = FALSE
    /\ forward_forever = FALSE
    /\ kind = [s \in SourceIds |-> "none"]
    /\ src_pos = [s \in SourceIds |-> 0]
    /\ src_eof = [s \in SourceIds |-> FALSE]
    /\ text = [s \in SourceIds |-> << >>]
    /\ cursor_position = [s \in SourceIds |-> 0]
    /\ line_tokens = [s \in SourceIds |-> << << >> >>]
    /\ waiting_for_input_stream = [s \in SourceIds |-> FALSE]
    /\ readers = [s \in SourceIds |-> << >>]
    /\ threads = [s \in SourceIds |-> << >>]
    /\ error = "none"

(* --------------------------- the registry ------------------------------ *)

\* Pager.add_source, for a newly constructed Source of kind k: its
\* _SourceInfo is created, it is appended and focused.
add_source(k) ==
    LET source == NumCreated + 1
    IN  /\ kind' = [kind EXCEPT ![source] = k]
        /\ sources' = Append(sources, source)
        /\ current_source_index' = Len(sources')  - 1

\* The index focus_previous_source and focus_next_source compute (Python's
\* % gives a result in 0..n-1 for n > 0, as TLA+'s does).
previous_index == (current_source_index - 1) % Len(sources)
next_index == (current_source_index + 1) % Len(sources)

\* Pager.focus_previous_source. (The modulo raises on an empty registry.)
focus_previous_source ==
    IF Len(sources) = 0
    THEN /\ error' = "ZeroDivisionError"
         /\ UNCHANGED <<current_source_index, in_colon_mode>>
    ELSE /\ current_source_index' = previous_index
         /\ in_colon_mode' = FALSE
         /\ error' = error

\* Pager.focus_next_source.
focus_next_source ==
    IF Len(sources) = 0
    THEN /\ error' = "ZeroDivisionError"
         /\ UNCHANGED <<current_source_index, in_colon_mode>>
    ELSE /\ current_source_index' = next_index
         /\ in_colon_mode' = FALSE
         /\ error' = error

\* remove_current_source whose test lets the last source go (>= for >).
remove_current_source_last_too ==
    IF Len(sources) >= 1
    THEN LET removed == current_source
         IN  /\ current_source_index' = previous_index
             /\ in_colon_mode' = FALSE
             /\ IF removed \in Range(sources)
                THEN /\ sources' = ListRemove(sources, removed)
                     /\ error' = error
                ELSE /\ sources' = sources
                     /\ error' = "ValueError"
             /\ message' = message
    ELSE /\ message' = CantRemove
         /\ UNCHANGED <<sources, current_source_index, in_colon_mode, error>>

\* Pager.remove_current_source: the current source is looked up first, then
\* the previous source is focused, then the looked-up source is removed
\* from the list (list.remove raises ValueError for the dummy source, which
\* is not in the list).
remove_current_source ==
    IF Len(sources) > 1
    THEN LET removed == current_source
         IN  /\ current_source_index' = previous_index
             /\ in_colon_mode' = FALSE
             /\ IF removed \in Range(sources)
                THEN /\ sources' = ListRemove(sources, removed)
                     /\ error' = error
                ELSE /\ sources' = sources
                     /\ error' = "ValueError"
             /\ message' = message
    ELSE /\ message' = CantRemove
         /\ UNCHANGED <<sources, current_source_index, in_colon_mode, error>>

\* Everything but the registry and the Source objects.
loaderVars == <<forward_forever, src_pos, src_eof, documents, episodes>>

\* The application runs: no exception has ended it.
Running == error = "none"

\* add_source called by the embedding program with a new PipeSource (as
\* Pager.from_pipe does).
AddSource(max) ==
    /\ Running
    /\ NumCreated < max
    /\ add_source("pipe")
    /\ UNCHANGED <<in_colon_mode, message, displaying_help, error, loaderVars>>

\* open_file that shows the error and adds a source all the same.
open_file_adding_anyway(filename) ==
    /\ add_source("file")
    /\ message' = (IF filename = "missing" THEN OpenError ELSE message)

\* Pager.open_file: FileSource(filename) raises IOError for a file that
\* cannot be opened, and the message shows it; else the source is added.
open_file(filename) ==
    IF filename = "missing"
    THEN /\ message' = OpenError
         /\ UNCHANGED <<sources, current_source_index, kind>>
    ELSE /\ add_source("file")
         /\ message' = message

OpenFile(max, filenames) ==
    /\ Running
    /\ \E filename \in filenames :
          /\ filename = "readable" => NumCreated < max
          /\ open_file(filename)
    /\ UNCHANGED <<in_colon_mode, displaying_help, error, loaderVars>>

RemoveCurrentSource ==
    /\ Running
    /\ remove_current_source
    /\ UNCHANGED <<displaying_help, kind, loaderVars>>

FocusPreviousSource ==
    /\ Running
    /\ focus_previous_source
    /\ UNCHANGED <<sources, message, displaying_help, kind, loaderVars>>

FocusNextSource ==
    /\ Running
    /\ focus_next_source
    /\ UNCHANGED <<sources, message, displaying_help, kind, loaderVars>>

\* display_help without its test of displaying_help.
display_help_unguarded ==
    /\ add_source("string")
    /\ displaying_help' = TRUE

\* Pager.display_help.
display_help ==
    IF ~displaying_help
    THEN /\ add_source("string")
         /\ displaying_help' = TRUE
    ELSE UNCHANGED <<sources, current_source_index, kind, displaying_help>>

DisplayHelp(max) ==
    /\ Running
    /\ ~displaying_help => NumCreated < max
    /\ display_help
    /\ UNCHANGED <<in_colon_mode, message, error, loaderVars>>

\* Pager.quit_help: an exception of remove_current_source leaves the flag.
quit_help ==
    IF displaying_help
    THEN /\ remove_current_source
         /\ displaying_help' = (error' # "none")
    ELSE UNCHANGED registry /\ error' = error

QuitHelp ==
    /\ Running
    /\ quit_help
    /\ UNCHANGED <<kind, loaderVars>>

\* The beforeKeyPress handler of Pager.__init__: any key hides the message.
key_pressed ==
    /\ Running
    /\ message' = NoMessage
    /\ UNCHANGED <<sources, current_source_index, in_colon_mode,
                   displaying_help, kind, error, loaderVars>>

(* ---------------------------- the sources ------------------------------ *)

\* Source.read_chunk() on a source of kind k that has delivered pos chunks:
\* the next chunk, or nothing once the content is exhausted. A string source
\* is exhausted by its one read; the others report eof on the read that
\* finds nothing more.
read_chunk(k, pos) ==
    IF pos < Len(Content(k))
    THEN [tokens |-> Content(k)[pos + 1], pos |-> pos + 1,
          eof |-> (k = "string")]
    ELSE [tokens |-> << >>, pos |-> pos, eof |-> TRUE]

(* ----------------------------- the loader ------------------------------ *)

\* handle_content that also stores the terminator in the line it ends.
RECURSIVE handle_content_keeping_terminator(_, _, _)
handle_content_keeping_terminator(tokens, lt, lines) ==
    IF tokens = << >>
    THEN [line_tokens |-> lt, lines |-> lines, data |-> << >>]
    ELSE LET token_char == Head(tokens)
             char == token_char[2]
             lt1 == [lt EXCEPT ![Len(lt)] = Append(@, token_char)]
             lt2 == IF char = NL THEN Append(lt1, << >>) ELSE lt1
             lines2 == IF char = NL THEN lines - 1 ELSE lines
             rest == handle_content_keeping_terminator(Tail(tokens), lt2, lines2)
         IN  [rest EXCEPT !.data = <<char>> \o @]

\* handle_content(tokens) of _on_render, on the closure's line_tokens and
\* lines[0]: a newline opens a new line and decreases the line count, any
\* other character joins the last line; every character is returned.
RECURSIVE handle_content(_, _, _)
handle_content(tokens, lt, lines) ==
    IF tokens = << >>
    THEN [line_tokens |-> lt, lines |-> lines, data |-> << >>]
    ELSE LET token_char == Head(tokens)
             char == token_char[2]
             lt2 == IF char = NL
                    THEN Append(lt, << >>)
                    ELSE [lt EXCEPT ![Len(lt)] = Append(@, token_char)]
             lines2 == IF char = NL THEN lines - 1 ELSE lines
             rest == handle_content(Tail(tokens), lt2, lines2)
         IN  [rest EXCEPT !.data = <<char>> \o @]

\* A Document of the new fragments alone.
new_document_replacing(s, data) ==
    [text |-> data, cursor_position |-> cursor_position[s]]

\* Document(b.text + ''.join(list_of_fragments), b.cursor_position), the
\* first statement of insert_text.
new_document(s, data) ==
    [text |-> text[s] \o data, cursor_position |-> cursor_position[s]]

\* insert_text that never moves the cursor to the end.
follow_cursor_never(b_text, b_cursor_position) == b_cursor_position

\* The end of insert_text, on the buffer's text and cursor after
\* b.set_document: if self.forward_forever: b.cursor_position = len(b.text)
follow_cursor(b_text, b_cursor_position) ==
    IF forward_forever THEN Len(b_text) ELSE b_cursor_position

\* One page of lines to load instead of two.
lines_to_load_one_page(info, lines_below_bottom) ==
    info.window_height - lines_below_bottom

\* lines = [info.window_height * 2 - lines_below_bottom]
lines_to_load(info, lines_below_bottom) ==
    info.window_height * 2 - lines_below_bottom

\* The condition of _on_render without its test of waiting_for_input_stream.
needs_content_ignoring_flag(source, info) ==
    /\ ~src_eof[source]
    /\ info # << >>
    /\ LET lines_below_bottom ==
               info[1].line_count - info[1].last_visible_line
       IN  lines_below_bottom < info[1].window_height * 2 \/ forward_forever

\* The condition of _on_render without its test of source.eof().
needs_content_ignoring_eof(source, info) ==
    /\ ~waiting_for_input_stream[source]
    /\ info # << >>
    /\ LET lines_below_bottom ==
               info[1].line_count - info[1].last_visible_line
       IN  lines_below_bottom < info[1].window_height * 2 \/ forward_forever

\* The condition under which _on_render starts loading, for the source it
\* found current and the render info it got (<< >> is None).
needs_content(source, info) ==
    /\ ~waiting_for_input_stream[source]
    /\ ~src_eof[source]
    /\ info # << >>
    /\ LET lines_below_bottom ==
               info[1].line_count - info[1].last_visible_line
       IN  lines_below_bottom < info[1].window_height * 2 \/ forward_forever

\* The tail of _on_render: the flag is set, and the closure is registered
\* with the loop (a descriptor) or started as a thread (no descriptor).
start_loading(source, info) ==
    LET lines_below_bottom ==
            info[1].line_count - info[1].last_visible_line
        lines == lines_to_load(info[1], lines_below_bottom)
    IN  /\ waiting_for_input_stream' =
              [waiting_for_input_stream EXCEPT ![source] = TRUE]
        /\ IF get_fd(kind[source]) # "None"
           THEN /\ readers' = [readers EXCEPT ![source] = <<[lines |-> lines]>>]
                /\ threads' = threads
           ELSE /\ threads' = [threads EXCEPT ![source] = Append(@,
                        [lines |-> lines, pc |-> "loop", data |-> << >>,
                         document |-> [text |-> << >>, cursor_position |-> 0]])]
                /\ readers' = readers

\* _on_render looking at the first source of the registry rather than at
\* the current one.
_on_render_first_source(info) ==
    LET source == CurrentSourceOf(sources, 0)
    IN  IF source = _dummy_source
        THEN /\ error' = "KeyError"
             /\ UNCHANGED episodes
        ELSE /\ error' = error
             /\ IF needs_content(source, info)
                THEN start_loading(source, info)
                ELSE UNCHANGED episodes

\* Pager._on_render, called by the application after each rendering. The
\* dummy source has no entry in source_info: the lookup raises KeyError.
_on_render(info) ==
    LET source == current_source
    IN  IF source = _dummy_source
        THEN /\ error' = "KeyError"
             /\ UNCHANGED episodes
        ELSE /\ error' = error
             /\ IF needs_content(source, info)
                THEN start_loading(source, info)
                ELSE UNCHANGED episodes

OnRender ==
    /\ Running
    /\ \E info \in {<<i>> : i \in RenderInfos} \cup {<< >>} : _on_render(info)
    /\ UNCHANGED <<registry, forward_forever, sourceObjs, documents>>

\* receive_content_from_fd, the callback the loop runs on the reactor thread
\* when the descriptor of source s is readable: one chunk is read, tokenized
\* and inserted; the reader is removed once enough lines came or at eof.
receive_content_from_fd(s) ==
    LET closure == readers[s][1]
        chunk == read_chunk(kind[s], src_pos[s])
        handled == handle_content(chunk.tokens, line_tokens[s], closure.lines)
        document == new_document(s, handled.data)
    IN  /\ src_pos' = [src_pos EXCEPT ![s] = chunk.pos]
        /\ src_eof' = [src_eof EXCEPT ![s] = chunk.eof]
        /\ line_tokens' = [line_tokens EXCEPT ![s] = handled.line_tokens]
        /\ text' = [text EXCEPT ![s] = document.text]
        /\ cursor_position' = [cursor_position EXCEPT ![s] =
              follow_cursor(document.text, document.cursor_position)]
        /\ IF handled.lines <= 0 \/ chunk.eof
           THEN /\ readers' = [readers EXCEPT ![s] = << >>]
                /\ waiting_for_input_stream' =
                      [waiting_for_input_stream EXCEPT ![s] = FALSE]
           ELSE /\ readers' = [readers EXCEPT ![s] =
                                 <<[lines |-> handled.lines]>>]
                /\ waiting_for_input_stream' = waiting_for_input_stream

ReceiveContentFromFd ==
    /\ Running
    /\ \E s \in SourceIds :
          /\ readers[s] # << >>
          /\ receive_content_from_fd(s)
    /\ UNCHANGED <<registry, forward_forever, kind, threads, error>>

\* receive_content_from_generator, run by a worker thread of source s; i is
\* the thread's place among the threads of s. Its steps interleave with the
\* reactor thread's.
\*
\* The loop test, and inside the loop read_chunk and handle_content; when
\* the test fails the flag is cleared and the thread ends.
generator_loop(s, i) ==
    LET t == threads[s][i]
        chunk == read_chunk(kind[s], src_pos[s])
        handled == handle_content(chunk.tokens, line_tokens[s], t.lines)
    IN  /\ t.pc = "loop"
        /\ IF t.lines > 0 /\ ~src_eof[s]
           THEN /\ src_pos' = [src_pos EXCEPT ![s] = chunk.pos]
                /\ src_eof' = [src_eof EXCEPT ![s] = chunk.eof]
                /\ line_tokens' = [line_tokens EXCEPT ![s] = handled.line_tokens]
                /\ threads' = [threads EXCEPT ![s][i] =
                      [t EXCEPT !.lines = handled.lines, !.data = handled.data,
                                !.pc = "insert_text"]]
                /\ waiting_for_input_stream' = waiting_for_input_stream
           ELSE /\ waiting_for_input_stream' =
                      [waiting_for_input_stream EXCEPT ![s] = FALSE]
                /\ threads' = [threads EXCEPT ![s] = RemoveAt(@, i)]
                /\ UNCHANGED <<src_pos, src_eof, line_tokens>>
        /\ UNCHANGED <<text, cursor_position>>

\* insert_text in the worker, first statement: the buffer's text and cursor
\* are read into a new Document.
generator_new_document(s, i) ==
    LET t == threads[s][i]
    IN  /\ t.pc = "insert_text"
        /\ threads' = [threads EXCEPT ![s][i] =
              [t EXCEPT !.document = new_document(s, t.data),
                        !.pc = "set_document"]]
        /\ UNCHANGED <<src_pos, src_eof, documents, waiting_for_input_stream>>

\* set_document on the buffer of whichever source is focused.
generator_set_document_in_focus(s, i) ==
    LET t == threads[s][i]
        b == IF current_source = _dummy_source THEN s ELSE current_source
    IN  /\ t.pc = "set_document"
        /\ text' = [text EXCEPT ![b] = t.document.text]
        /\ cursor_position' =
              [cursor_position EXCEPT ![b] = t.document.cursor_position]
        /\ threads' = [threads EXCEPT ![s][i] = [t EXCEPT !.pc = "follow"]]
        /\ UNCHANGED <<src_pos, src_eof, line_tokens, waiting_for_input_stream>>

\* insert_text in the worker: b.set_document(document, bypass_readonly=True)
generator_set_document(s, i) ==
    LET t == threads[s][i]
    IN  /\ t.pc = "set_document"
        /\ text' = [text EXCEPT ![s] = t.document.text]
        /\ cursor_position' =
              [cursor_position EXCEPT ![s] = t.document.cursor_position]
        /\ threads' = [threads EXCEPT ![s][i] = [t EXCEPT !.pc = "follow"]]
        /\ UNCHANGED <<src_pos, src_eof, line_tokens, waiting_for_input_stream>>

\* insert_text in the worker, last statement, and the redraw request.
generator_follow(s, i) ==
    LET t == threads[s][i]
    IN  /\ t.pc = "follow"
        /\ cursor_position' = [cursor_position EXCEPT ![s] =
              follow_cursor(text[s], cursor_position[s])]
        /\ threads' = [threads EXCEPT ![s][i] =
              [t EXCEPT !.pc = "loop", !.data = << >>,
                        !.document = [text |-> << >>, cursor_position |-> 0]]]
        /\ UNCHANGED <<src_pos, src_eof, text, line_tokens,
                       waiting_for_input_stream>>

ReceiveContentFromGenerator ==
    /\ Running
    /\ \E s \in SourceIds : \E i \in 1..Len(threads[s]) :
          \/ generator_loop(s, i)
          \/ generator_new_document(s, i)
          \/ generator_set_document(s, i)
          \/ generator_follow(s, i)
    /\ UNCHANGED <<registry, forward_forever, kind, readers, error>>

(* ------------------------- the key bindings ---------------------------- *)

\* The user moves the cursor in the focused source's buffer.
MoveCursor ==
    /\ Running
    /\ current_source # _dummy_source
    /\ \E p \in 0..Len(text[current_source]) :
          cursor_position' = [cursor_position EXCEPT ![current_source] = p]
    /\ UNCHANGED <<registry, forward_forever, sourceObjs, text, line_tokens,
                   episodes, error>>

\* The follow-forever toggle.
ToggleForwardForever ==
    /\ Running
    /\ forward_forever' = ~forward_forever
    /\ UNCHANGED <<registry, sourceObjs, documents, episodes, error>>

\* The ':' key enters colon mode.
EnterColonMode ==
    /\ Running
    /\ in_colon_mode' = TRUE
    /\ UNCHANGED <<sources, current_source_index, message, displaying_help,
                   forward_forever, sourceObjs, documents, episodes, error>>

(* --------------------------- specification ----------------------------- *)

\* The loader and the registry operations that change the focus, on at most
\* MaxLoading sources. Help, the message line and colon mode neither read
\* nor write what the loader reads: they are left to SpecRegistry.
Next ==
    \/ AddSource(MaxLoading)
    \/ OpenFile(MaxLoading, {"readable"})
    \/ RemoveCurrentSource
    \/ FocusPreviousSource
    \/ FocusNextSource
    \/ OnRender
    \/ ReceiveContentFromFd
    \/ ReceiveContentFromGenerator
    \/ MoveCursor
    \/ ToggleForwardForever

Spec == Init /\ [][Next]_vars

\* The registry operations alone, on at most MaxSources sources.
NextRegistry ==
    \/ AddSource(MaxSources)
    \/ OpenFile(MaxSources, {"missing", "readable"})
    \/ RemoveCurrentSource
    \/ FocusPreviousSource
    \/ FocusNextSource
    \/ DisplayHelp(MaxSources)
    \/ QuitHelp
    \/ key_pressed
    \/ EnterColonMode

SpecRegistry == Init /\ [][NextRegistry]_vars

(* ------------------------------ claims --------------------------------- *)

\* The loading episodes in progress for source s: readiness callbacks
\* registered for it and worker threads alive for it.
ActiveEpisodes(s) == Len(readers[s]) + Len(threads[s])

\* The characters of one line of line_tokens.
LineChars(line) == [i \in 1..Len(line) |-> line[i][2]]

\* The characters of the lines, with a newline between consecutive lines.
RECURSIVE JoinLines(_)
JoinLines(lt) ==
    IF Len(lt) = 0 THEN << >>
    ELSE IF Len(lt) = 1 THEN LineChars(lt[1])
    ELSE LineChars(lt[1]) \o <<NL>> \o JoinLines(Tail(lt))

\* C1: for every source, at most one loading episode (a registered readiness
\* callback or a live worker thread) is active at any time, and the flag
\* waiting_for_input_stream is set exactly while one is.
C1_AtMostOneEpisode ==
    \A s \in SourceIds :
        /\ ActiveEpisodes(s) <= 1
        /\ waiting_for_input_stream[s] <=> ActiveEpisodes(s) = 1

\* C1 witness: a worker thread and a readiness callback are active at once,
\* for two sources, one of which has lost the focus.
C1_Witness ==
    \E s1, s2 \in SourceIds :
        /\ Len(threads[s1]) = 1 /\ Len(readers[s2]) = 1
        /\ threads[s1][1].pc = "insert_text"
        /\ current_source = s2

\* C2 (as claimed): in every reachable state the characters of line_tokens,
\* joined with newlines, are the buffer text of the same source.
C2_TextEqualsLines ==
    \A s \in SourceIds : JoinLines(line_tokens[s]) = text[s]

\* C3 (as claimed): whenever the registry is not empty the current index is
\* the index of one of its sources.
C3_IndexInRange ==
    Len(sources) > 0 =>
        (0 <= current_source_index /\ current_source_index < Len(sources))

\* C4 (as claimed): remove_current_source on two or more sources removes the
\* source that was current and focuses the one before it in tab order,
\* wrapping from the first to the last.
C4_RemoveFocusesPrevious ==
    [][(/\ Len(sources) >= 2
        /\ current_source_index < Len(sources)
        /\ RemoveCurrentSource)
       => (/\ sources' = RemoveAt(sources, current_source_index + 1)
           /\ CurrentSourceOf(sources', current_source_index') =
                 sources[IF current_source_index = 0
                         THEN Len(sources) ELSE current_source_index])]_vars

\* C5: remove_current_source on a registry of one source removes nothing,
\* leaves the index and sets the message.
C5_LastSourceStays ==
    [][(Len(sources) = 1 /\ RemoveCurrentSource)
       => (/\ sources' = sources
           /\ current_source_index' = current_source_index
           /\ message' = CantRemove
           /\ error' = "none")]_vars

\* C5 witness: the refusal is on display and the one source is still there.
C5_Witness ==
    /\ Len(sources) = 1
    /\ message = CantRemove
    /\ current_source # _dummy_source

\* The line count of the episode that source s has in progress.
EpisodeLines(s) ==
    IF readers[s] # << >> THEN readers[s][1].lines
    ELSE threads[s][Len(threads[s])].lines

\* C6: with follow-forever off, a render cycle for the focused source starts
\* an episode exactly when none is in flight for it, it is not at eof and
\* fewer than 2 * window_height lines lie below the bottom; the episode
\* then starts with 2 * window_height - lines_below_bottom lines to load.
C6_RenderStartsWhenNeeded ==
    (Running /\ ~forward_forever) =>
        \A i \in RenderInfos : \A s \in SourceIds :
            LET lines_below_bottom == i.line_count - i.last_visible_line
                due == /\ ~waiting_for_input_stream[s]
                       /\ ~src_eof[s]
                       /\ lines_below_bottom < 2 * i.window_height
            IN  s = current_source =>
                  IF due
                  THEN ENABLED (/\ _on_render(<<i>>)
                                /\ waiting_for_input_stream'[s]
                                /\ ActiveEpisodes(s)' = ActiveEpisodes(s) + 1
                                /\ EpisodeLines(s)' =
                                      2 * i.window_height - lines_below_bottom)
                  ELSE ~ENABLED (_on_render(<<i>>) /\ episodes' # episodes)

\* C6 witness: follow-forever is off and an episode that was started with
\* 15 lines to load (height 10, 5 lines below) has not read anything yet.
C6_Witness ==
    /\ ~forward_forever
    /\ \E s \in SourceIds :
          /\ s = current_source
          /\ waiting_for_input_stream[s]
          /\ ActiveEpisodes(s) = 1
          /\ EpisodeLines(s) = 15
          /\ src_pos[s] = 0

\* C7 (as claimed): every episode a render cycle starts while follow-forever
\* is on has at least one line to load.
C7_FollowStartsWithPositiveDeficit ==
    [][\A s \in SourceIds :
          (/\ forward_forever
           /\ ~waiting_for_input_stream[s]
           /\ waiting_for_input_stream'[s])
          => EpisodeLines(s)' >= 1]_vars

\* C8: an append leaves the cursor at the end of the new text when
\* follow-forever is on, and where insert_text read it when it is off; on
\* the reactor thread (the readiness callback) and in a worker thread
\* (set_document, then the follow-forever statement).
C8_CursorAfterAppend ==
    [][\A s \in SourceIds :
          /\ (readers[s] # << >> /\ receive_content_from_fd(s))
             => cursor_position'[s] =
                  (IF forward_forever THEN Len(text'[s])
                   ELSE cursor_position[s])
          /\ \A i \in 1..Len(threads[s]) :
                /\ generator_set_document(s, i)
                   => cursor_position'[s] =
                        threads[s][i].document.cursor_position
                /\ generator_follow(s, i)
                   => cursor_position'[s] =
                        (IF forward_forever THEN Len(text'[s])
                         ELSE cursor_position[s])]_vars

\* C8 witness: follow-forever is on, a worker has just completed an append
\* and the cursor is at the end of the text.
C8_Witness ==
    /\ forward_forever
    /\ \E s \in SourceIds :
          /\ Len(threads[s]) = 1
          /\ threads[s][1].pc = "loop"
          /\ Len(text[s]) = 2
          /\ cursor_position[s] = Len(text[s])

\* C9: while help is displayed, display_help changes neither the sources,
\* nor the index, nor the flag; while it is not, display_help adds one
\* source, the help text, and sets the flag.
C9_DisplayHelpIdempotent ==
    Running =>
        /\ displaying_help =>
              ~ENABLED (/\ DisplayHelp(MaxSources)
                        /\ <<sources, current_source_index, displaying_help>>'
                             # <<sources, current_source_index, displaying_help>>)
        /\ (~displaying_help /\ NumCreated < MaxSources) =>
              ENABLED (/\ DisplayHelp(MaxSources)
                       /\ Len(sources') = Len(sources) + 1
                       /\ SubSeq(sources', 1, Len(sources)) = sources
                       /\ kind'[sources'[Len(sources')]] = "string"
                       /\ displaying_help')

\* C9 witness: help is displayed and the registry holds its one source.
C9_Witness ==
    /\ displaying_help
    /\ Cardinality({i \in 1..Len(sources) : kind[sources[i]] = "string"}) = 1
    /\ Len(sources) = 3

\* C10: open_file on a file that cannot be opened changes neither the
\* sources nor the index, shows the error as the message and raises
\* nothing; on a file that opens, the new source is appended and focused.
C10_OpenFile ==
    Running =>
        /\ ENABLED OpenFile(MaxSources, {"missing"})
        /\ ~ENABLED (/\ OpenFile(MaxSources, {"missing"})
                     /\ ~(/\ sources' = sources
                          /\ current_source_index' = current_source_index
                          /\ message' = OpenError
                          /\ error' = "none"))
        /\ NumCreated < MaxSources =>
              /\ ENABLED OpenFile(MaxSources, {"readable"})
              /\ ~ENABLED (/\ OpenFile(MaxSources, {"readable"})
                           /\ ~(/\ sources' = Append(sources, NumCreated + 1)
                                /\ kind'[NumCreated + 1] = "file"
                                /\ current_source_index' = Len(sources)
                                /\ CurrentSourceOf(sources', current_source_index')
                                      = NumCreated + 1
                                /\ error' = "none"))

\* C10 witness: the error of a failed open_file is on display, with the
\* sources opened before still there.
C10_Witness ==
    /\ message = OpenError
    /\ Len(sources) = 2
    /\ error = "none"

\* C11 (as claimed): no render cycle raises, whatever the registry holds; a
\* render cycle whose current source is the dummy source starts nothing.
C11_RenderNeverRaises ==
    [][OnRender =>
          /\ error' = "none"
          /\ current_source = _dummy_source => UNCHANGED episodes]_vars

\* C12 (as claimed): nothing on the reactor thread comes between a worker's
\* reading of the buffer (text and cursor, for the new Document) and its
\* writing of the document: what set_document replaces is what was read.
C12_InsertTextAtomic ==
    [][\A s \in SourceIds : \A i \in 1..Len(threads[s]) :
          generator_set_document(s, i) =>
              /\ threads[s][i].document.cursor_position = cursor_position[s]
              /\ threads[s][i].document.text =
                    text[s] \o threads[s][i].data]_vars

\* C13 (as claimed): a readiness callback is registered only while its
\* episode still has lines to load and its source is not at eof, and the
\* flag is cleared in the step that removes the callback.
C13_RegisteredWhileNeeded ==
    \A s \in SourceIds :
        /\ readers[s] # << >> =>
              (readers[s][1].lines > 0 /\ ~src_eof[s])
        /\ get_fd(kind[s]) # "None" =>
              (waiting_for_input_stream[s] <=> readers[s] # << >>)

\* C14: once a source is at eof it stays at eof, no render cycle starts an
\* episode for it (follow-forever or not), and no worker that finds it at
\* eof in its loop test goes on to read_chunk.
C14_NothingStartsAfterEof ==
    [][\A s \in SourceIds :
          src_eof[s] =>
              /\ src_eof'[s]
              /\ ~(~waiting_for_input_stream[s] /\ waiting_for_input_stream'[s])
              /\ ActiveEpisodes(s)' <= ActiveEpisodes(s)
              /\ \A i \in 1..Len(threads[s]) :
                    threads[s][i].pc = "loop" =>
                        /\ src_pos'[s] = src_pos[s]
                        /\ ~(/\ Len(threads'[s]) >= i
                             /\ threads'[s][i].pc = "insert_text")]_vars

\* C14 witness: the focused source is at eof with no episode in flight while
\* follow-forever is on, so that only the eof test keeps a render cycle from
\* starting one.
C14_Witness ==
    /\ forward_forever
    /\ error = "none"
    /\ \E s \in SourceIds :
          /\ s = current_source
          /\ src_eof[s]
          /\ ~waiting_for_input_stream[s]
          /\ ActiveEpisodes(s) = 0

\* The steps of the episode of source s: its readiness callback, or a step
\* of one of its workers.
EpisodeStep(s) ==
    \/ readers[s] # << >> /\ receive_content_from_fd(s)
    \/ \E i \in 1..Len(threads[s]) :
          \/ generator_loop(s, i)
          \/ generator_new_document(s, i)
          \/ generator_set_document(s, i)
          \/ generator_follow(s, i)

\* C15: a step that changes the registry or the focus leaves every episode,
\* every flag, every buffer and every source's read position as they were;
\* a step of the episode of s writes the text, lines and flag of s only;
\* the flag of s is up for as long as its episode exists, and there is never
\* a second episode of s, focused or not, in the registry or not.
C15_EpisodeOutlivesFocus ==
    [][/\ (sources' # sources \/ current_source_index' # current_source_index)
            => UNCHANGED <<episodes, documents, src_pos, src_eof>>
       /\ \A s \in SourceIds :
             /\ EpisodeStep(s) =>
                   \A o \in SourceIds \ {s} :
                       /\ text'[o] = text[o]
                       /\ line_tokens'[o] = line_tokens[o]
                       /\ waiting_for_input_stream'[o] =
                             waiting_for_input_stream[o]
                       /\ readers'[o] = readers[o]
                       /\ threads'[o] = threads[o]
             /\ ActiveEpisodes(s) > 0 =>
                   /\ waiting_for_input_stream[s]
                   /\ ActiveEpisodes(s)' <= 1
                   /\ ActiveEpisodes(s)' = 1 => waiting_for_input_stream'[s]]_vars

\* C15 witness: a source that was removed from the registry while its
\* episode was in flight has text, another source is focused, and the next
\* step of the episode appends to the removed source's text.
C15_Witness ==
    /\ error = "none"
    /\ \E s \in SourceIds :
          /\ kind[s] # "none"
          /\ s \notin Range(sources)
          /\ current_source # _dummy_source
          /\ text[s] # << >>
          /\ waiting_for_input_stream[s]
          /\ \/ ENABLED (ReceiveContentFromFd /\ text'[s] # text[s])
             \/ ENABLED (ReceiveContentFromGenerator /\ text'[s] # text[s])

\* C16: an episode starts (the flag goes up, a callback is registered or a
\* worker is started) only in a render cycle and only for the source that is
\* current in that cycle; a render cycle reads from no source and writes no
\* buffer.
C16_OnlyFocusedSourceStarts ==
    [][/\ \A s \in SourceIds :
             \/ ~waiting_for_input_stream[s] /\ waiting_for_input_stream'[s]
             \/ ActiveEpisodes(s)' > ActiveEpisodes(s)
             => /\ s = current_source
                /\ OnRender
       /\ OnRender => UNCHANGED <<src_pos, src_eof, documents>>]_vars

\* C16 witness: of two sources in the registry that have delivered nothing
\* and are not at eof, the focused one has an episode that has not read yet
\* and the other has none.
C16_Witness ==
    /\ Len(sources) = 2
    /\ \E s, o \in Range(sources) :
          /\ s = current_source
          /\ o # s
          /\ src_pos[s] = 0 /\ src_pos[o] = 0
          /\ ~src_eof[s] /\ ~src_eof[o]
          /\ waiting_for_input_stream[s] /\ ActiveEpisodes(s) = 1
          /\ ~waiting_for_input_stream[o] /\ ActiveEpisodes(o) = 0

\* The characters of a sequence of chunks, in order.
RECURSIVE CharsOf(_)
CharsOf(chunks) ==
    IF chunks = << >> THEN << >>
    ELSE LineChars(Head(chunks)) \o CharsOf(Tail(chunks))

\* The characters of the chunks read_chunk has returned from source s so far.
CharsRead(s) ==
    IF kind[s] = "none" THEN << >>
    ELSE CharsOf(SubSeq(Content(kind[s]), 1, src_pos[s]))

IsPrefix(a, b) == Len(a) <= Len(b) /\ SubSeq(b, 1, Len(a)) = a

\* The characters a worker of s has read and not yet put into the buffer.
PendingData(s) ==
    IF \E i \in 1..Len(threads[s]) :
           threads[s][i].pc \in {"insert_text", "set_document"}
    THEN threads[s][1].data
    ELSE << >>

\* C17 (as claimed): after every step the text of every source is exactly
\* the characters of all chunks read from it so far, and the text before
\* the step is a prefix of the text after it.
C17_TextIsAllChunksRead ==
    [][\A s \in SourceIds :
          /\ text'[s] = CharsRead(s)'
          /\ IsPrefix(text[s], text'[s])]_vars

\* C17 (amended): after every step the text of every source, followed by the
\* chunk a worker has read and not yet inserted, is exactly the characters
\* of all chunks read so far; the text before the step is a prefix of the
\* text after it.
C17_TextIsChunksInserted ==
    [][\A s \in SourceIds :
          /\ text'[s] \o PendingData(s)' = CharsRead(s)'
          /\ IsPrefix(text[s], text'[s])]_vars

\* C17 witness: a worker holds a chunk it has read and not yet inserted,
\* behind text that earlier chunks made.
C17_Witness ==
    \E s \in SourceIds :
        /\ text[s] # << >>
        /\ PendingData(s) # << >>
        /\ text[s] # CharsRead(s)
        /\ text[s] \o PendingData(s) = CharsRead(s)

\* The number of line terminators among characters.
CountNL(chars) == Cardinality({i \in 1..Len(chars) : chars[i] = NL})

\* No line of lt holds a line terminator.
NoTerminatorStored(lt) ==
    \A i \in 1..Len(lt) : \A j \in 1..Len(lt[i]) : lt[i][j][2] # NL

\* The chunks of at most MaxTokens pairs, and the lines and line counts
\* handle_content is tried on.
TokenSeqs == UNION {[1..m -> {Tok("a"), Tok(NL)}] : m \in 0..MaxTokens}
StartLines == { << << >> >>, << <<Tok("b")>> >>, << <<Tok("b")>>, << >> >> }
StartCounts == {-1, 0, 2}

\* handle_content on every such chunk: the characters come back in order,
\* terminators included, each terminator opens one line and decreases the
\* line count by one, and none is stored.
HandleContentCases ==
    \A tokens \in TokenSeqs : \A lt \in StartLines : \A lines \in StartCounts :
        LET r == handle_content(tokens, lt, lines)
        IN  /\ r.data = LineChars(tokens)
            /\ Len(r.line_tokens) = Len(lt) + CountNL(r.data)
            /\ r.lines = lines - CountNL(r.data)
            /\ NoTerminatorStored(r.line_tokens)
            /\ JoinLines(r.line_tokens) = JoinLines(lt) \o r.data

\* The chunks "a\n", "b\n", "c" give the lines a, b and the open line c.
HandleContentExample ==
    LET r1 == handle_content(<<Tok("a"), Tok(NL)>>, << << >> >>, 2)
        r2 == handle_content(<<Tok("b"), Tok(NL)>>, r1.line_tokens, r1.lines)
        r3 == handle_content(<<Tok("c")>>, r2.line_tokens, r2.lines)
    IN  /\ r3.line_tokens = << <<Tok("a")>>, <<Tok("b")>>, <<Tok("c")>> >>
        /\ r3.lines = 0

\* C18: handle_content consumes line terminators: none is stored in a line,
\* each opens one new empty line and decreases the line count by one; so in
\* every state the lines of a source are never empty, there is one more
\* line than terminators read so far, and the lines joined by terminators
\* are the characters read so far, the last line being the open one.
C18_Tokenization ==
    /\ HandleContentCases
    /\ HandleContentExample
    /\ \A s \in SourceIds :
          /\ Len(line_tokens[s]) >= 1
          /\ NoTerminatorStored(line_tokens[s])
          /\ Len(line_tokens[s]) = 1 + CountNL(CharsRead(s))
          /\ JoinLines(line_tokens[s]) = CharsRead(s)

\* C18 witness: a source has read a terminator and characters after it, so
\* that it has a closed line and a non-empty open line.
C18_Witness ==
    \E s \in SourceIds :
        /\ CountNL(CharsRead(s)) = 1
        /\ Len(line_tokens[s]) = 2
        /\ line_tokens[s][2] # << >>

\* The index after k calls of focus_next_source from index i on n sources.
RECURSIVE FocusNextTimes(_, _, _)
FocusNextTimes(k, i, n) ==
    IF k = 0 THEN i ELSE FocusNextTimes(k - 1, (i + 1) % n, n)

\* C19 (as claimed): on a non-empty registry focus_next_source and
\* focus_previous_source leave sources as it is, move the index by one
\* modulo the number of sources and clear in_colon_mode; from every
\* reachable state the index after focus_next_source and then
\* focus_previous_source is the index before, and so is the index after as
\* many focus_next_source calls as there are sources.
C19_FocusCycles ==
    [][Len(sources) > 0 =>
          LET n == Len(sources)
              i == current_source_index
          IN  /\ FocusNextSource =>
                    /\ sources' = sources
                    /\ current_source_index' = (i + 1) % n
                    /\ ~in_colon_mode'
              /\ FocusPreviousSource =>
                    /\ sources' = sources
                    /\ current_source_index' = (i - 1) % n
                    /\ ~in_colon_mode'
              /\ (((i + 1) % n) - 1) % n = i
              /\ FocusNextTimes(n, i, n) = i]_vars

\* The places of the registry that hold a help source (the StringSource of
\* display_help: nothing else makes a source of that kind).
HelpPlaces == {i \in 1..Len(sources) : kind[sources[i]] = "string"}

IsNotHelp(source) == kind[source] # "string"

\* C20 (as claimed): after every operation displaying_help is true exactly
\* when one help source is in the registry, the registry never holds more
\* than one, and quit_help while help is displayed removes the help source
\* and no other source.
C20_HelpFlagMatchesRegistry ==
    [][/\ displaying_help' <=> Cardinality(HelpPlaces') = 1
       /\ Cardinality(HelpPlaces') <= 1
       /\ (displaying_help /\ QuitHelp) =>
             sources' = SelectSeq(sources, IsNotHelp)]_vars

====
